---- MODULE Spec2Model ----
(***************************************************************************)
(* A model of llama-android.cpp: the handle registries, the batch          *)
(* resource, the chunked decode scheduler (decode_tokens_chunked), prompt  *)
(* priming (completion_init), the per-token generation loop                *)
(* (completion_loop) with its pending-text buffer (cached_token_chars),    *)
(* the embedding entry point and the bench entry point.                    *)
(*                                                                         *)
(* Handles are integers, 0 is the null pointer.  The inference engine is   *)
(* an external collaborator: the model keeps of it only what the file      *)
(* reads back (llama_n_ctx of a live context) and a log of the decode      *)
(* calls the file issues; the return code of each llama_decode call, the   *)
(* sampled token and the tokenizer's output are inputs chosen with \E.     *)
(***************************************************************************)
EXTENDS Integers, Sequences, FiniteSets, TLC

\* ------------------------------------------------------------------ bounds
MaxTokens == 4      \* longest token sequence handed to decode_tokens_chunked
MaxPos0 == 1        \* largest start position tried
MaxNCtx == 3        \* largest nCtx given to new_embedding_context
MaxCap == 3         \* largest n_tokens given to new_batch
MaxNLen == 2        \* largest n_len given to completion_init
MaxPrompt == 2      \* longest prompt of a generation session
MaxSteps == 2       \* completion_loop calls followed per session after an init
MaxBench == 2       \* largest tg and nr given to bench_model
MaxChars == 2       \* longest text, in characters, fed to the pending-text buffer
MaxSlack == 2       \* how far n_ctx and the prompt go past the trimming threshold
MaxOps == 2         \* operations each thread runs one after the other

\* ------------------------------------------------------- program constants
CHAT_N_CTX_DEFAULT == 1024
CHAT_N_BATCH_DEFAULT == 512

NULL == 0

\* ---------------------------------------------------------------- helpers
Min(a, b) == IF a < b THEN a ELSE b
Max(a, b) == IF a > b THEN a ELSE b

MapPut(m, k, v) == [x \in (DOMAIN m) \cup {k} |-> IF x = k THEN v ELSE m[x]]
\* a mutant: the entry stays
MapEraseNot(m, k) == m

MapErase(m, k) == [x \in (DOMAIN m) \ {k} |-> m[x]]
EmptyMap == [x \in {} |-> 0]

RECURSIVE Flatten(_)
Flatten(ss) == IF ss = <<>> THEN <<>> ELSE Head(ss) \o Flatten(Tail(ss))

\* token ids the tokenizer / sampler can produce
TokenIds == {11, 12}
TokenSeqs == UNION {[1..n -> TokenIds] : n \in 0..MaxTokens}

VARIABLES
    g_ctx_n_ctx,          \* registry: context handle -> n_ctx
    g_ctx_n_batch,        \* registry: context handle -> n_batch
    g_batch_n_tokens,     \* registry: batch handle -> n_tokens
    g_batch_n_seq_max,    \* registry: batch handle -> n_seq_max
    llama_ctx,            \* engine: live context handle -> its n_ctx
    decode_calls,         \* the llama_decode calls issued by the last operation
    lastOp,               \* the last operation: its name, arguments and result
    cached_token_chars,   \* the pending-text buffer (one static std::string)
    n_cur,                \* session -> value of the caller's IntVar cursor
    sess,                 \* session -> what its caller has seen since its init
    step_returns,         \* cause of a stop -> the results returned for it so far
    acc,                  \* a text, how much of it was fed to the buffer, what came out
    heap,                 \* allocation -> "live", "freed" or "leaked"
    double_frees,         \* the allocations released again after their release
    g_ctx_mu,             \* the thread that holds the context-registry mutex, 0 if none
    g_batch_mu,           \* the thread that holds the batch-registry mutex, 0 if none
    th                    \* thread -> the operation it runs and where it stands in it

regVars == <<g_ctx_n_ctx, g_ctx_n_batch, g_batch_n_tokens, g_batch_n_seq_max>>
genVars == <<cached_token_chars, n_cur, sess, step_returns>>
lockVars == <<g_ctx_mu, g_batch_mu, th>>
auxVars == <<acc, heap, double_frees, lockVars>>
vars == <<g_ctx_n_ctx, g_ctx_n_batch, g_batch_n_tokens, g_batch_n_seq_max,
          llama_ctx, decode_calls, lastOp,
          cached_token_chars, n_cur, sess, step_returns,
          acc, heap, double_frees, g_ctx_mu, g_batch_mu, th>>

\* ------------------------------------------------------------- registries
\* llama_n_ctx(ctx) of a live context
llama_n_ctx(ctx) == llama_ctx[ctx]

\* a mutant: the capacity is read from the other map of the batch registry
get_batch_capacity_seq_max(batch) ==
    IF batch = NULL THEN 0
    ELSE IF batch \in DOMAIN g_batch_n_seq_max THEN g_batch_n_seq_max[batch] ELSE 0

get_batch_capacity(batch) ==
    IF batch = NULL THEN 0
    ELSE IF batch \in DOMAIN g_batch_n_tokens THEN g_batch_n_tokens[batch] ELSE 0

get_ctx_limits(ctx) ==
    LET n_ctx0 == IF ctx # NULL THEN llama_n_ctx(ctx) ELSE 0
        n_ctx1 == IF ctx # NULL /\ ctx \in DOMAIN g_ctx_n_ctx
                  THEN g_ctx_n_ctx[ctx] ELSE n_ctx0
        n_batch1 == IF ctx # NULL /\ ctx \in DOMAIN g_ctx_n_batch
                    THEN g_ctx_n_batch[ctx] ELSE 0
    IN  [n_ctx   |-> IF n_ctx1 <= 0 THEN CHAT_N_CTX_DEFAULT ELSE n_ctx1,
         n_batch |-> IF n_batch1 <= 0 THEN CHAT_N_BATCH_DEFAULT ELSE n_batch1]

\* ------------------------------------------------- chunked decode scheduler
\* a mutant: the batch capacity is used even when the batch is unregistered
ChunkCapNoFallback(n_batch_ctx, batch_cap) ==
    Max(1, Min(n_batch_ctx, batch_cap))

ChunkCap(n_batch_ctx, batch_cap) ==
    Max(1, Min(n_batch_ctx, IF batch_cap > 0 THEN batch_cap ELSE n_batch_ctx))

\* a mutant: the position restarts at pos0 in every chunk
ChunkPosPerChunk(pos0, done, i) == pos0 + i

\* the position of the i-th record (i from 0) of the chunk that starts at done
ChunkPos(pos0, done, i) == pos0 + done + i

\* a mutant: the last record of every chunk asks for logits
WantLogitsEveryChunk(want_logits_last_token, done, take, n) ==
    want_logits_last_token

WantLogits(want_logits_last_token, done, take, n) ==
    want_logits_last_token /\ (done + take) = n

\* common_batch_clear, then take common_batch_add calls, then the logits mark
ChunkRecords(tokens, pos0, want_logits_last_token, done, take) ==
    LET added == [i \in 1..take |->
                    [token  |-> tokens[done + i],
                     pos    |-> ChunkPos(pos0, done, i - 1),
                     seq_id |-> {0},
                     logits |-> FALSE]]
    IN  IF WantLogits(want_logits_last_token, done, take, Len(tokens)) /\ take > 0
        THEN [added EXCEPT ![take].logits = TRUE]
        ELSE added

\* The while loop.  failAt is the engine's part: the number (from 1) of the
\* llama_decode call that returns non-zero, 0 when none does.
RECURSIVE ChunkLoop(_, _, _, _, _, _, _)
ChunkLoop(tokens, pos0, want_logits_last_token, chunk_cap, done, failAt, calls) ==
    IF ~(done < Len(tokens)) THEN [ok |-> TRUE, calls |-> calls]
    ELSE LET take == Min(chunk_cap, Len(tokens) - done)
             issued == Append(calls,
                         ChunkRecords(tokens, pos0, want_logits_last_token, done, take))
         IN  IF Len(issued) = failAt
             THEN [ok |-> FALSE, calls |-> issued]
             ELSE ChunkLoop(tokens, pos0, want_logits_last_token, chunk_cap,
                            done + take, failAt, issued)

decode_tokens_chunked(ctx, batch, tokens, pos0, want_logits_last_token, failAt) ==
    IF ctx = NULL \/ batch = NULL THEN [ok |-> FALSE, calls |-> <<>>]
    ELSE IF tokens = <<>> THEN [ok |-> TRUE, calls |-> <<>>]
    ELSE ChunkLoop(tokens, pos0, want_logits_last_token,
                   ChunkCap(get_ctx_limits(ctx).n_batch, get_batch_capacity(batch)),
                   0, failAt, <<>>)

\* ------------------------------------------------- partial-text accumulator
\* the byte at index p (from 1) of a std::string's c_str(): past the end it is
\* the terminating 0
ByteAt(str, p) == IF p >= 1 /\ p <= Len(str) THEN str[p] ELSE 0

\* the length a lead byte announces, 0 for a byte that cannot lead:
\* (b & 0x80) == 0, (b & 0xE0) == 0xC0, (b & 0xF0) == 0xE0, (b & 0xF8) == 0xF0
Utf8Num(b) ==
    IF b \div 128 = 0 THEN 1
    ELSE IF b \div 32 = 6 THEN 2
    ELSE IF b \div 16 = 14 THEN 3
    ELSE IF b \div 8 = 30 THEN 4
    ELSE 0

\* (b & 0xC0) == 0x80
IsContinuation(b) == b \div 64 = 2

RECURSIVE Utf8Scan(_, _)
Utf8Scan(str, p) ==
    IF ByteAt(str, p) = 0 THEN TRUE
    ELSE LET num == Utf8Num(ByteAt(str, p))
         IN  IF num = 0 THEN FALSE
             ELSE IF \E i \in 1..(num - 1) : ~IsContinuation(ByteAt(str, p + i))
             THEN FALSE
             ELSE Utf8Scan(str, p + num)

is_valid_utf8(str) == Utf8Scan(str, 1)

\* the C string a const char * denotes: the bytes before the first 0
RECURSIVE CStr(_)
CStr(str) ==
    IF str = <<>> \/ Head(str) = 0 THEN <<>> ELSE <<Head(str)>> \o CStr(Tail(str))

\* env->NewStringUTF(cached_token_chars.c_str())
NewStringUTF(str) == CStr(str)

\* a mutant: the buffer is not cleared after it was returned
IngestNoClear(buf, piece) ==
    LET joined == buf \o piece
    IN  IF is_valid_utf8(joined)
        THEN [out |-> NewStringUTF(joined), buf |-> joined]
        ELSE [out |-> <<>>, buf |-> joined]

\* cached_token_chars += piece, then the validity test and its two branches
Ingest(buf, piece) ==
    LET joined == buf \o piece
    IN  IF is_valid_utf8(joined)
        THEN [out |-> NewStringUTF(joined), buf |-> <<>>]
        ELSE [out |-> <<>>, buf |-> joined]

\* ------------------------------------------------------------ engine inputs
\* The vocabulary is the engine's: an end-of-generation token, the
\* end-of-turn token and text tokens whose pieces are "A" and the two bytes
\* of a two-byte character, one byte each.
Special == [eos |-> 2, eot |-> 3]
TextTokens == {11, 12, 13}
SampleIds == {Special.eos, Special.eot} \cup TextTokens
llama_token_is_eog(t) == t = Special.eos
llama_token_eot == Special.eot
common_token_to_piece(t) ==
    CASE t = 11 -> <<65>>
      [] t = 12 -> <<195>>
      [] t = 13 -> <<169>>
      [] OTHER  -> <<>>

Sessions == {1, 2}
NullRet == [isnull |-> TRUE, str |-> <<>>]
StrRet(str) == [isnull |-> FALSE, str |-> str]

\* primed_ok: completion_init decoded its whole prompt; hi and contig: the
\* positions the engine decoded for the session since llama_kv_cache_clear
\* are exactly 0..hi-1 as long as contig is true
IdleSess == [started |-> FALSE, n_len |-> 0, primed |-> 0, calls |-> 0, count |-> 0,
             stopped |-> FALSE, out |-> <<>>, solo_out |-> <<>>,
             solo_buf |-> <<>>, primed_ok |-> FALSE, hi |-> 0, contig |-> TRUE]

\* ------------------------------------------------------ completion_init
InitMaxPrompt(n_ctx, n_len) ==
    LET max_prompt == n_ctx - n_len - 8
    IN  IF max_prompt < 64 THEN Max(64, n_ctx - 64) ELSE max_prompt

\* a mutant: the leading tokens are kept
TrimPromptLeading(tokens, max_prompt) ==
    IF Len(tokens) > max_prompt THEN SubSeq(tokens, 1, max_prompt) ELSE tokens

\* tokens.erase(tokens.begin(), tokens.end() - max_prompt)
TrimPrompt(tokens, max_prompt) ==
    IF Len(tokens) > max_prompt
    THEN SubSeq(tokens, Len(tokens) - max_prompt + 1, Len(tokens))
    ELSE tokens

\* a mutant: the prompt length is returned whether or not the decode succeeded
InitReturnAlways(ok, prompt_tokens) == prompt_tokens

\* if (!ok) return 0; return prompt_tokens;
InitReturn(ok, prompt_tokens) == IF ok THEN prompt_tokens ELSE 0

\* Session s calls completion_init(ctx, batch, text, n_len); tokens is what
\* common_tokenize makes of the text.  The caller starts its cursor at the
\* value returned.
completion_init(s, ctx, batch, tokens, n_len, failAt) ==
    /\ cached_token_chars' = <<>>
    /\ IF ctx = NULL \/ batch = NULL
       THEN /\ decode_calls' = <<>>
            /\ lastOp' = [op |-> "completion_init", s |-> s, ctx |-> ctx,
                          batch |-> batch, threw |-> TRUE, ret |-> 0,
                          n_len |-> n_len, tokens |-> <<>>, kept |-> <<>>,
                          ok |-> FALSE, failAt |-> 0]
            /\ UNCHANGED <<n_cur, sess>>
       ELSE LET n_ctx == llama_n_ctx(ctx)
                kept == TrimPrompt(tokens, InitMaxPrompt(n_ctx, n_len))
                r == decode_tokens_chunked(ctx, batch, kept, 0, TRUE, failAt)
                ret == InitReturn(r.ok, Len(kept))
            IN  /\ decode_calls' = r.calls
                /\ lastOp' = [op |-> "completion_init", s |-> s, ctx |-> ctx,
                              batch |-> batch, threw |-> FALSE, ret |-> ret,
                              n_len |-> n_len, tokens |-> tokens, kept |-> kept,
                              ok |-> r.ok, failAt |-> IF r.ok THEN 0 ELSE failAt]
                /\ n_cur' = [n_cur EXCEPT ![s] = ret]
                /\ sess' = [sess EXCEPT ![s] =
                              [IdleSess EXCEPT
                                 !.started = TRUE, !.n_len = n_len, !.primed = ret,
                                 !.primed_ok = r.ok,
                                 !.hi = Len(Flatten(r.calls)),
                                 !.contig = \A i \in 1..Len(Flatten(r.calls)) :
                                               Flatten(r.calls)[i].pos = i - 1]]
    /\ UNCHANGED <<regVars, llama_ctx, step_returns, auxVars>>

\* ------------------------------------------------------ completion_loop
\* a mutant: the cursor is not advanced
AdvanceNot(cur) == cur

\* a mutant: the cursor skips a position
AdvanceTwice(cur) == cur + 2

\* env->CallVoidMethod(intvar_ncur, midInc)
Advance(cur) == cur + 1

\* a mutant: the length test is dropped from the stop condition
StopsNoLength(cur, n_len, tok) ==
    llama_token_is_eog(tok) \/ tok = llama_token_eot

StopsOnToken(cur, n_len, tok) ==
    llama_token_is_eog(tok) \/ cur = n_len \/ tok = llama_token_eot

\* a mutant: the record does not ask for logits
StepRecordNoLogits(tok, cur) ==
    [token |-> tok, pos |-> cur, seq_id |-> {0}, logits |-> FALSE]

\* common_batch_clear, then common_batch_add(*batch, new_token_id, n_cur, {0}, true)
StepRecord(tok, cur) ==
    [token |-> tok, pos |-> cur, seq_id |-> {0}, logits |-> TRUE]

\* Session s calls completion_loop(ctx, batch, sampler, n_len, intvar_ncur):
\* tok is what llama_sampler_sample returns, rc what llama_decode returns.
completion_loop(s, ctx, batch, sampler, n_len, tok, rc) ==
    LET cur == n_cur[s]
        note(cause, ret, calls) ==
            /\ lastOp' = [op |-> "completion_loop", s |-> s, ctx |-> ctx,
                          batch |-> batch, cause |-> cause, ret |-> ret,
                          cur |-> cur,
                          n_len |-> n_len,
                          tok |-> IF cause \in {"null", "range"} THEN NULL ELSE tok]
            /\ decode_calls' = calls
        stop(cause) ==
            /\ note(cause, NullRet, <<>>)
            /\ step_returns' = [step_returns EXCEPT !["stop"] = @ \cup {NullRet}]
            /\ sess' = [sess EXCEPT ![s].stopped = TRUE, ![s].calls = Min(@ + 1, MaxSteps)]
            /\ UNCHANGED <<cached_token_chars, n_cur>>
    IN
    /\ IF ctx = NULL \/ batch = NULL \/ sampler = NULL
       THEN /\ note("null", NullRet, <<>>)
            /\ sess' = [sess EXCEPT ![s].calls = Min(@ + 1, MaxSteps)]
            /\ UNCHANGED <<cached_token_chars, n_cur, step_returns>>
       ELSE IF cur < 0 \/ cur >= llama_n_ctx(ctx)
       THEN stop("range")
       ELSE IF StopsOnToken(cur, n_len, tok)
       THEN stop("token")
       ELSE LET ing == Ingest(cached_token_chars, common_token_to_piece(tok))
                solo == Ingest(sess[s].solo_buf, common_token_to_piece(tok))
                rec == StepRecord(tok, cur)
            IN  /\ cached_token_chars' = ing.buf
                /\ n_cur' = [n_cur EXCEPT ![s] = Advance(cur)]
                /\ IF rc # 0
                   THEN /\ note("decode_failed", NullRet, <<<<rec>>>>)
                        /\ step_returns' = [step_returns EXCEPT
                                              !["decode_failed"] = @ \cup {NullRet}]
                        /\ sess' = [sess EXCEPT ![s].stopped = TRUE,
                                                ![s].calls = Min(@ + 1, MaxSteps),
                                                ![s].solo_buf = solo.buf]
                   ELSE /\ note("ok", StrRet(ing.out), <<<<rec>>>>)
                        /\ sess' = [sess EXCEPT
                              ![s].calls = Min(@ + 1, MaxSteps),
                              ![s].count = IF sess[s].stopped THEN @ ELSE Min(@ + 1, MaxSteps),
                              ![s].hi = IF sess[s].contig /\ cur = @ THEN @ + 1 ELSE @,
                              ![s].contig = @ /\ cur = sess[s].hi,
                              ![s].out = ing.out,
                              ![s].solo_out = solo.out,
                              ![s].solo_buf = solo.buf]
                        /\ UNCHANGED step_returns
    /\ UNCHANGED <<regVars, llama_ctx, auxVars>>

\* ------------------------------------------------- embedding_for_text
\* a mutant: the trailing tokens are kept
KeepTrailing(tokens, n_ctx) ==
    IF Len(tokens) > n_ctx
    THEN SubSeq(tokens, Len(tokens) - n_ctx + 1, Len(tokens)) ELSE tokens

\* tokens.resize(n_ctx)
KeepLeading(tokens, n_ctx) ==
    IF Len(tokens) > n_ctx THEN SubSeq(tokens, 1, n_ctx) ELSE tokens

\* emb tells whether the engine has an embedding to read after the decode
embedding_for_text(ctx, batch, tokens, failAt, emb) ==
    /\ IF ctx = NULL \/ batch = NULL
       THEN /\ decode_calls' = <<>>
            /\ lastOp' = [op |-> "embedding_for_text", ctx |-> ctx, batch |-> batch,
                          threw |-> TRUE, ret |-> "empty",
                          tokens |-> <<>>, ok |-> FALSE, failAt |-> 0]
       ELSE LET kept == KeepLeading(tokens, llama_n_ctx(ctx))
                r == decode_tokens_chunked(ctx, batch, kept, 0, TRUE, failAt)
            IN  /\ decode_calls' = r.calls
                /\ lastOp' = [op |-> "embedding_for_text", ctx |-> ctx,
                              batch |-> batch, threw |-> ~(r.ok /\ emb),
                              ret |-> IF r.ok /\ emb THEN "vector" ELSE "empty",
                              tokens |-> tokens, ok |-> r.ok,
                              failAt |-> IF r.ok THEN 0 ELSE failAt]
    /\ UNCHANGED <<regVars, llama_ctx, genVars, auxVars>>

\* ---------------------------------------------------------- bench_model
\* the prompt-processing batch: pp records at positions 0..pp-1
BenchPromptBatch(pp) ==
    [i \in 1..pp |-> [token |-> 0, pos |-> i - 1, seq_id |-> {0},
                      logits |-> (i = pp)]]

\* the i-th text-generation batch: pl records at position i, one per sequence
BenchGenBatch(i, pl) ==
    [j \in 1..pl |-> [token |-> 0, pos |-> i, seq_id |-> {j - 1}, logits |-> TRUE]]

BenchRound(pp, tg, pl) ==
    <<BenchPromptBatch(pp)>> \o [i \in 1..tg |-> BenchGenBatch(i - 1, pl)]

RECURSIVE BenchRounds(_, _, _, _)
BenchRounds(nr, pp, tg, pl) ==
    IF nr <= 0 THEN <<>> ELSE BenchRound(pp, tg, pl) \o BenchRounds(nr - 1, pp, tg, pl)

\* the calls issued before the first batch that does not fit the allocation
RECURSIVE FittingPrefix(_, _)
FittingPrefix(calls, cap) ==
    IF calls = <<>> \/ Len(Head(calls)) > cap THEN <<>>
    ELSE <<Head(calls)>> \o FittingPrefix(Tail(calls), cap)

\* common_batch_add past the n_tokens slots new_batch allocated writes outside
\* the buffers: the process may die there (aborts = TRUE) or run on.
bench_model(ctx, model, batch, pp, tg, pl, nr, aborts) ==
    /\ IF ctx = NULL \/ model = NULL \/ batch = NULL
       THEN /\ decode_calls' = <<>>
            /\ lastOp' = [op |-> "bench_model", ctx |-> ctx, batch |-> batch,
                          ret |-> "missing"]
       ELSE LET calls == BenchRounds(nr, pp, tg, pl)
                cap == get_batch_capacity(batch)
                fits == FittingPrefix(calls, cap)
            IN  IF fits # calls /\ aborts
                THEN /\ decode_calls' = fits
                     /\ lastOp' = [op |-> "bench_model", ctx |-> ctx,
                                   batch |-> batch, ret |-> "abort"]
                ELSE /\ decode_calls' = calls
                     /\ lastOp' = [op |-> "bench_model", ctx |-> ctx,
                                   batch |-> batch, ret |-> "report"]
    /\ UNCHANGED <<regVars, llama_ctx, genVars, auxVars>>

IdleAcc == [text |-> <<>>, fed |-> 0, out |-> <<>>, held |-> FALSE]

\* no thread inside an operation, both mutexes free
Threads == {1, 2}
IdleThread == [op |-> "idle", pc |-> 0, seenC |-> "none", seenB |-> "none", left |-> 0]
IdleLocks ==
    /\ g_ctx_mu = 0
    /\ g_batch_mu = 0
    /\ th = [t \in Threads |-> IdleThread]

IdleAux ==
    /\ IdleLocks
    /\ acc = IdleAcc
    /\ heap = EmptyMap
    /\ double_frees = {}

IdleGen ==
    /\ cached_token_chars = <<>>
    /\ n_cur = [s \in Sessions |-> 0]
    /\ sess = [s \in Sessions |-> IdleSess]
    /\ step_returns = [c \in {"stop", "decode_failed"} |-> {}]

\* ----------------------------------------------------- handle lifecycle
\* An allocation is named by the handle it belongs to: <<"ctx", h, "ctx", 0>>
\* is the llama_context at address h, <<"batch", h, part, i>> a part of the
\* llama_batch at address h.  heap keeps, per handle, the allocations of the
\* last object made at that address.
CtxHandles == {1}
BatchHandles == {1, 2}

CtxAlloc(h) == <<"ctx", h, "ctx", 0>>
StructAlloc(h) == <<"batch", h, "struct", 0>>

\* the malloc calls of new_batch, in order
AllocOrder(h, n_tokens, embd) ==
    << <<"batch", h, IF embd # 0 THEN "embd" ELSE "token", 0>>,
       <<"batch", h, "pos", 0>>,
       <<"batch", h, "n_seq_id", 0>>,
       <<"batch", h, "seq_id", 0>> >>
    \o [i \in 1..n_tokens |-> <<"batch", h, "seq_id_i", i - 1>>]
    \o << <<"batch", h, "logits", 0>> >>

OfHandle(kind, h) == {a \in DOMAIN heap : a[1] = kind /\ a[2] = h}

\* an address the allocator can hand out again: nothing of it is still held
Reusable(kind, h) == \A a \in OfHandle(kind, h) : heap[a] = "freed"

\* the allocations of the address forgotten, then the given ones recorded
Remade(kind, h, status) ==
    [a \in (DOMAIN heap \ OfHandle(kind, h)) \cup DOMAIN status |->
        IF a \in DOMAIN status THEN status[a] ELSE heap[a]]

\* free / delete / llama_free of every allocation in rel
Released(rel) == [a \in DOMAIN heap |-> IF a \in rel THEN "freed" ELSE heap[a]]
AlreadyFreed(rel) == {a \in rel : heap[a] = "freed"}

\* the last object made at address h was handed to the caller: for a batch,
\* every malloc of new_batch, the last one (logits) included, succeeded
Issued(kind, h) ==
    IF kind = "ctx" THEN CtxAlloc(h) \in DOMAIN heap
    ELSE <<"batch", h, "logits", 0>> \in DOMAIN heap

\* the process has not died and its heap is intact: what follows a double
\* release is not modelled
Alive ==
    /\ double_frees = {}
    /\ IF "ret" \in DOMAIN lastOp THEN lastOp.ret # "abort" ELSE TRUE

\* new_context (nCtx = CHAT_N_CTX_DEFAULT) and new_embedding_context: h is the
\* address llama_new_context_with_model returns, made tells whether it
\* returns a context at all.
NewContextAt(opname, model, h, n_ctx, n_batch, made) ==
    IF model = NULL \/ ~made
    THEN /\ lastOp' = [op |-> opname, h |-> NULL, ret |-> "throw"]
         /\ UNCHANGED <<regVars, llama_ctx, heap>>
    ELSE /\ heap' = Remade("ctx", h, (CtxAlloc(h) :> "live"))
         /\ llama_ctx' = MapPut(llama_ctx, h, n_ctx)
         /\ g_ctx_n_ctx' = MapPut(g_ctx_n_ctx, h, n_ctx)
         /\ g_ctx_n_batch' = MapPut(g_ctx_n_batch, h, n_batch)
         /\ lastOp' = [op |-> opname, h |-> h, ret |-> "handle"]
         /\ UNCHANGED <<g_batch_n_tokens, g_batch_n_seq_max>>

new_context(model, h, made) ==
    /\ NewContextAt("new_context", model, h, CHAT_N_CTX_DEFAULT,
                    Min(CHAT_N_BATCH_DEFAULT, CHAT_N_CTX_DEFAULT), made)
    /\ UNCHANGED <<decode_calls, genVars, acc, double_frees, lockVars>>

new_embedding_context(model, h, nCtx, made) ==
    /\ NewContextAt("new_embedding_context", model, h, nCtx, Min(nCtx, 512), made)
    /\ UNCHANGED <<decode_calls, genVars, acc, double_frees, lockVars>>

\* llama_free of a context that was freed already is undefined: the process
\* dies in the allocator (ub = "abort") or the memory is released once more.
free_context(h, ub) ==
    LET registered == h \in DOMAIN g_ctx_n_ctx \/ h \in DOMAIN g_ctx_n_batch
        live == h # NULL /\ CtxAlloc(h) \in DOMAIN heap /\ heap[CtxAlloc(h)] = "live"
        rel == IF h = NULL \/ (~live /\ ub = "abort") THEN {} ELSE {CtxAlloc(h)}
    IN  /\ g_ctx_n_ctx' = IF h # NULL THEN MapErase(g_ctx_n_ctx, h) ELSE g_ctx_n_ctx
        /\ g_ctx_n_batch' = IF h # NULL THEN MapErase(g_ctx_n_batch, h) ELSE g_ctx_n_batch
        /\ heap' = Released(rel)
        /\ double_frees' = double_frees \cup AlreadyFreed(rel)
        /\ llama_ctx' = IF live THEN MapErase(llama_ctx, h) ELSE llama_ctx
        /\ lastOp' = [op |-> "free_context", h |-> h,
                      second |-> h # NULL /\ ~live /\ ~registered,
                      reg_changed |-> registered,
                      rereleased |-> AlreadyFreed(rel),
                      ret |-> IF h # NULL /\ ~live /\ ub = "abort"
                              THEN "abort" ELSE "void"]
        /\ UNCHANGED <<g_batch_n_tokens, g_batch_n_seq_max, decode_calls, genVars, acc,
                       lockVars>>

\* failAt is the number (from 1) of the malloc that returns null, 0 when
\* none does.  On that path only the struct is deleted.
new_batch(h, n_tokens, embd, n_seq_max, failAt) ==
    /\ IF n_tokens <= 0 \/ n_seq_max <= 0
       THEN /\ lastOp' = [op |-> "new_batch", h |-> NULL, ret |-> "throw"]
            /\ UNCHANGED <<regVars, heap>>
       ELSE LET order == AllocOrder(h, n_tokens, embd)
            IN  IF failAt \in 1..Len(order)
                THEN /\ heap' = Remade("batch", h,
                                  [a \in {StructAlloc(h)} \cup
                                         {order[k] : k \in 1..(failAt - 1)} |->
                                     IF a = StructAlloc(h) THEN "freed" ELSE "leaked"])
                     /\ lastOp' = [op |-> "new_batch", h |-> NULL, ret |-> "oom",
                                   at |-> h]
                     /\ UNCHANGED regVars
                ELSE /\ heap' = Remade("batch", h,
                                  [a \in {StructAlloc(h)} \cup
                                         {order[k] : k \in 1..Len(order)} |-> "live"])
                     /\ g_batch_n_tokens' = MapPut(g_batch_n_tokens, h, n_tokens)
                     /\ g_batch_n_seq_max' = MapPut(g_batch_n_seq_max, h, n_seq_max)
                     /\ lastOp' = [op |-> "new_batch", h |-> h, ret |-> "handle"]
                     /\ UNCHANGED <<g_ctx_n_ctx, g_ctx_n_batch>>
    /\ UNCHANGED <<llama_ctx, decode_calls, genVars, acc, double_frees, lockVars>>

\* Reading a llama_batch that was deleted already is undefined: the process
\* dies (ub = "abort") or the struct still shows the pointers it held.
free_batch(h, ub) ==
    IF h = NULL
    THEN /\ lastOp' = [op |-> "free_batch", h |-> h, second |-> FALSE,
                       reg_changed |-> FALSE, rereleased |-> {}, ret |-> "void"]
         /\ UNCHANGED <<regVars, llama_ctx, heap, double_frees, decode_calls,
                        genVars, acc, lockVars>>
    ELSE
    LET registered == h \in DOMAIN g_batch_n_tokens \/ h \in DOMAIN g_batch_n_seq_max
        n_tokens == IF h \in DOMAIN g_batch_n_tokens THEN g_batch_n_tokens[h] ELSE 0
        live == StructAlloc(h) \in DOMAIN heap /\ heap[StructAlloc(h)] = "live"
        \* the non-null buffer pointers of the struct, and seq_id[0..n_tokens-1]
        buffers == {a \in OfHandle("batch", h) :
                      \/ a[3] \in {"token", "embd", "pos", "n_seq_id", "seq_id", "logits"}
                      \/ (a[3] = "seq_id_i" /\ a[4] < n_tokens)}
        rel == IF ~live /\ ub = "abort" THEN {}
               ELSE buffers \cup (OfHandle("batch", h) \cap {StructAlloc(h)})
    IN  /\ g_batch_n_tokens' = MapErase(g_batch_n_tokens, h)
        /\ g_batch_n_seq_max' = MapErase(g_batch_n_seq_max, h)
        /\ heap' = Released(rel)
        /\ double_frees' = double_frees \cup AlreadyFreed(rel)
        /\ lastOp' = [op |-> "free_batch", h |-> h,
                      second |-> ~live /\ ~registered,
                      reg_changed |-> registered,
                      rereleased |-> AlreadyFreed(rel),
                      ret |-> IF ~live /\ ub = "abort" THEN "abort" ELSE "void"]
        /\ UNCHANGED <<g_ctx_n_ctx, g_ctx_n_batch, llama_ctx, decode_calls, genVars, acc,
                       lockVars>>

\* ---------------------------------------------------------------- SpecChunk
\* decode_tokens_chunked applied to bounded inputs, in a registry state that
\* new_context / new_embedding_context and new_batch can leave behind.
NoOp == [op |-> "none"]

\* n_ctx of the contexts the two constructors make
CtxConfigs == {CHAT_N_CTX_DEFAULT} \cup (1..MaxNCtx)

InitChunk ==
    /\ \E c \in CtxConfigs :
          /\ llama_ctx = (1 :> c)
          /\ g_ctx_n_ctx = (1 :> c)
          /\ g_ctx_n_batch = (1 :> Min(c, CHAT_N_BATCH_DEFAULT))
    /\ \E regd \in BOOLEAN, cap \in 1..MaxCap :
          /\ g_batch_n_tokens = IF regd THEN (1 :> cap) ELSE EmptyMap
          /\ g_batch_n_seq_max = IF regd THEN (1 :> 1) ELSE EmptyMap
    /\ decode_calls = <<>>
    /\ IdleGen
    /\ IdleAux
    /\ \E ctx \in {NULL, 1}, batch \in {NULL, 1}, tokens \in TokenSeqs,
          pos0 \in 0..MaxPos0, want \in BOOLEAN, failAt \in 0..MaxTokens :
          lastOp = [op |-> "call", ctx |-> ctx, batch |-> batch, tokens |-> tokens,
                    pos0 |-> pos0, want |-> want, failAt |-> failAt]

\* the pending call runs to its return
CallDecodeTokensChunked ==
    /\ lastOp.op = "call"
    /\ LET r == decode_tokens_chunked(lastOp.ctx, lastOp.batch, lastOp.tokens,
                                      lastOp.pos0, lastOp.want, lastOp.failAt)
       IN  /\ decode_calls' = r.calls
           /\ lastOp' = [lastOp EXCEPT !.op = "decode_tokens_chunked"] @@ [ok |-> r.ok]
    /\ UNCHANGED <<regVars, llama_ctx, genVars, auxVars>>

NextChunk == CallDecodeTokensChunked

SpecChunk == InitChunk /\ [][NextChunk]_vars

\* ------------------------------------------------------------------ SpecOps
\* One call of an exposed operation on a live context and a live batch, from
\* every registry state the constructors can leave behind, every value the
\* caller's cursor may hold and a pending-text buffer that is empty or holds
\* the first byte of a two-byte character.
\* one prompt per length, its tokens alternating
PromptSeqs == {[i \in 1..n |-> 11 + (i % 2)] : n \in 0..MaxTokens}

InitOps ==
    /\ \E c \in CtxConfigs :
          /\ llama_ctx = (1 :> c)
          /\ g_ctx_n_ctx = (1 :> c)
          /\ g_ctx_n_batch = (1 :> Min(c, CHAT_N_BATCH_DEFAULT))
    /\ \E cap \in 1..MaxCap :
          /\ g_batch_n_tokens = (1 :> cap)
          /\ g_batch_n_seq_max = (1 :> 1)
    /\ decode_calls = <<>>
    /\ lastOp = NoOp
    /\ cached_token_chars \in {<<>>, <<195>>}
    /\ \E cur \in (-1)..(MaxNCtx + 1) : n_cur = [s \in Sessions |-> cur]
    /\ sess = [s \in Sessions |-> [IdleSess EXCEPT !.solo_buf = cached_token_chars]]
    /\ step_returns = [c \in {"stop", "decode_failed"} |-> {}]
    /\ IdleAux

OpsInit ==
    \E h \in {<<1, 1>>, <<NULL, 1>>, <<1, NULL>>}, tokens \in PromptSeqs,
       n_len \in 0..MaxNLen, failAt \in 0..MaxTokens :
        /\ lastOp = NoOp
        /\ completion_init(1, h[1], h[2], tokens, n_len, failAt)

OpsLoop ==
    \E h \in {<<1, 1, 1>>, <<NULL, 1, 1>>, <<1, NULL, 1>>, <<1, 1, NULL>>},
       n_len \in 0..MaxNLen, tok \in SampleIds, rc \in {0, 1} :
        /\ lastOp = NoOp
        /\ completion_loop(1, h[1], h[2], h[3], n_len, tok, rc)

OpsEmbed ==
    \E h \in {<<1, 1>>, <<NULL, 1>>, <<1, NULL>>}, tokens \in PromptSeqs,
       failAt \in 0..MaxTokens, emb \in BOOLEAN :
        /\ lastOp = NoOp
        /\ embedding_for_text(h[1], h[2], tokens, failAt, emb)

OpsBench ==
    \E h \in {<<1, 1, 1>>, <<NULL, 1, 1>>, <<1, NULL, 1>>, <<1, 1, NULL>>},
       pp \in 0..(MaxCap + 1), tg \in 0..MaxBench, pl \in 0..(MaxCap + 1),
       nr \in 0..MaxBench, aborts \in BOOLEAN :
        /\ lastOp = NoOp
        /\ bench_model(h[1], h[2], h[3], pp, tg, pl, nr, aborts)

\* a second batch is asked for, with valid or invalid sizes
OpsNewBatch ==
    \E n_tokens \in 0..MaxCap, embd \in {0, 1}, n_seq_max \in 0..1 :
        /\ lastOp = NoOp
        /\ new_batch(2, n_tokens, embd, n_seq_max, 0)

NextOps == OpsInit \/ OpsLoop \/ OpsEmbed \/ OpsBench \/ OpsNewBatch

SpecOps == InitOps /\ [][NextOps]_vars

\* ------------------------------------------------------------------ SpecGen
\* Two generation sessions, session s on context s and batch s, each started
\* once by completion_init and then stepped by completion_loop with the
\* n_len of its init; the calls of the two sessions interleave freely.
InitGen ==
    /\ \E c \in CtxConfigs :
          /\ llama_ctx = [h \in Sessions |-> c]
          /\ g_ctx_n_ctx = [h \in Sessions |-> c]
          /\ g_ctx_n_batch = [h \in Sessions |-> Min(c, CHAT_N_BATCH_DEFAULT)]
    /\ g_batch_n_tokens = [h \in Sessions |-> MaxCap]
    /\ g_batch_n_seq_max = [h \in Sessions |-> 1]
    /\ decode_calls = <<>>
    /\ lastOp = NoOp
    /\ IdleGen
    /\ IdleAux

GenInit ==
    \E s \in Sessions, tokens \in {p \in PromptSeqs : Len(p) <= MaxPrompt},
       n_len \in 0..MaxNLen, failAt \in 0..1 :
        /\ ~sess[s].started
        /\ completion_init(s, s, s, tokens, n_len, failAt)

GenLoop ==
    \E s \in Sessions, tok \in SampleIds, rc \in {0, 1} :
        /\ sess[s].started
        /\ ~sess[s].stopped
        /\ sess[s].calls < MaxSteps
        /\ completion_loop(s, s, s, 1, sess[s].n_len, tok, rc)

NextGen == GenInit \/ GenLoop

SpecGen == InitGen /\ [][NextGen]_vars

\* ------------------------------------------------------------------ FairGen
\* One caller that keeps calling completion_loop, with one n_len, from any
\* cursor value, until the first stop.  The caller's loop runs on its own
\* thread and is not blocked by anything, hence the weak fairness.
InitLive ==
    /\ \E c \in 1..MaxNCtx :
          /\ llama_ctx = [h \in Sessions |-> c]
          /\ g_ctx_n_ctx = [h \in Sessions |-> c]
          /\ g_ctx_n_batch = [h \in Sessions |-> Min(c, CHAT_N_BATCH_DEFAULT)]
    /\ g_batch_n_tokens = [h \in Sessions |-> MaxCap]
    /\ g_batch_n_seq_max = [h \in Sessions |-> 1]
    /\ decode_calls = <<>>
    /\ lastOp = NoOp
    /\ cached_token_chars = <<>>
    /\ step_returns = [c \in {"stop", "decode_failed"} |-> {}]
    /\ IdleAux
    /\ \E cur \in (-1)..(MaxNCtx + 1), n_len \in 0..(MaxNCtx + 1) :
          /\ n_cur = [s \in Sessions |-> cur]
          /\ sess = [s \in Sessions |->
                       [IdleSess EXCEPT !.started = TRUE, !.n_len = n_len,
                                        !.primed = cur]]

LiveLoop ==
    \E tok \in SampleIds, rc \in {0, 1} :
        /\ ~sess[1].stopped
        /\ Len(cached_token_chars) + Len(common_token_to_piece(tok)) <= MaxNCtx + 1
        /\ completion_loop(1, 1, 1, 1, sess[1].n_len, tok, rc)

FairGen == InitLive /\ [][LiveLoop]_vars /\ WF_vars(LiveLoop)

\* ------------------------------------------------------------------ SpecAcc
\* The pending-text buffer fed with a well-formed text cut into fragments at
\* arbitrary byte offsets, as lines 610-618 of completion_loop do with the
\* pieces of the sampled tokens.
\* the encodings of U+0000, "A", U+00E9, U+20AC and U+1F600
Utf8Chars == {<<0>>, <<65>>, <<195, 169>>, <<226, 130, 172>>, <<240, 159, 152, 128>>}

RECURSIVE TextsOf(_)
TextsOf(n) ==
    IF n = 0 THEN {<<>>}
    ELSE LET shorter == TextsOf(n - 1)
         IN  shorter \cup {t \o c : t \in shorter, c \in Utf8Chars}

InitAcc ==
    /\ \E c \in {CHAT_N_CTX_DEFAULT} :
          /\ llama_ctx = (1 :> c)
          /\ g_ctx_n_ctx = (1 :> c)
          /\ g_ctx_n_batch = (1 :> Min(c, CHAT_N_BATCH_DEFAULT))
    /\ g_batch_n_tokens = (1 :> MaxCap)
    /\ g_batch_n_seq_max = (1 :> 1)
    /\ decode_calls = <<>>
    /\ lastOp = NoOp
    /\ IdleGen
    /\ heap = EmptyMap
    /\ double_frees = {}
    /\ IdleLocks
    /\ \E text \in TextsOf(MaxChars) : acc = [IdleAcc EXCEPT !.text = text]

\* the next k bytes of the text arrive as one token piece
AccIngest ==
    \E k \in 1..(Len(acc.text) - acc.fed) :
        LET piece == SubSeq(acc.text, acc.fed + 1, acc.fed + k)
            r == Ingest(cached_token_chars, piece)
        IN  /\ cached_token_chars' = r.buf
            /\ acc' = [acc EXCEPT !.fed = @ + k, !.out = @ \o r.out,
                                  !.held = @ \/ r.buf # <<>>]
            /\ UNCHANGED <<regVars, llama_ctx, decode_calls, lastOp, n_cur, sess,
                           step_returns, heap, double_frees, lockVars>>

NextAcc == AccIngest

SpecAcc == InitAcc /\ [][NextAcc]_vars

\* ----------------------------------------------------------------- SpecLife
\* Contexts and batches made and freed in any order.  A caller frees only
\* addresses it was once given, possibly a second time.
InitLife ==
    /\ g_ctx_n_ctx = EmptyMap
    /\ g_ctx_n_batch = EmptyMap
    /\ g_batch_n_tokens = EmptyMap
    /\ g_batch_n_seq_max = EmptyMap
    /\ llama_ctx = EmptyMap
    /\ decode_calls = <<>>
    /\ lastOp = NoOp
    /\ IdleGen
    /\ IdleAux

LifeNewContext ==
    \E model \in {NULL, 1}, h \in CtxHandles, made \in BOOLEAN :
        /\ Alive /\ Reusable("ctx", h)
        /\ new_context(model, h, made)

LifeNewEmbeddingContext ==
    \E h \in CtxHandles, nCtx \in 1..MaxNCtx, made \in BOOLEAN :
        /\ Alive /\ Reusable("ctx", h)
        /\ new_embedding_context(1, h, nCtx, made)

LifeFreeContext ==
    \E h \in {NULL} \cup CtxHandles, ub \in {"abort", "stale"} :
        /\ Alive /\ (h = NULL \/ Issued("ctx", h))
        /\ free_context(h, ub)

LifeNewBatch ==
    \E h \in BatchHandles, n_tokens \in 0..MaxCap, embd \in {0, 1},
       n_seq_max \in 0..1 :
      \E failAt \in 0..(n_tokens + 5) :
        /\ Alive /\ Reusable("batch", h)
        /\ new_batch(h, n_tokens, embd, n_seq_max, failAt)

LifeFreeBatch ==
    \E h \in {NULL} \cup BatchHandles, ub \in {"abort", "stale"} :
        /\ Alive /\ (h = NULL \/ Issued("batch", h))
        /\ free_batch(h, ub)

NextLife == LifeNewContext \/ LifeNewEmbeddingContext \/ LifeFreeContext
            \/ LifeNewBatch \/ LifeFreeBatch

SpecLife == InitLife /\ [][NextLife]_vars

\* --------------------------------------------------------------- SpecLimits
\* get_ctx_limits called, as decode_tokens_chunked calls it, with a null
\* handle, with the handle of a live context, or with the handle of a context
\* that free_context has freed.  For a freed context llama_ctx holds what the
\* freed memory still shows when llama_n_ctx reads it.
StaleReads == {-1, 0, 2, 2048}

InitLimits ==
    /\ \E live \in SUBSET {1, 2}, c \in [{1, 2} -> CtxConfigs],
          g \in [{1, 2} -> StaleReads] :
          /\ llama_ctx = [h \in {1, 2} |-> IF h \in live THEN c[h] ELSE g[h]]
          /\ g_ctx_n_ctx = [h \in live |-> c[h]]
          /\ g_ctx_n_batch = [h \in live |-> Min(c[h], CHAT_N_BATCH_DEFAULT)]
          /\ heap = [a \in {CtxAlloc(h) : h \in {1, 2}} |->
                       IF a[2] \in live THEN "live" ELSE "freed"]
    /\ g_batch_n_tokens = EmptyMap
    /\ g_batch_n_seq_max = EmptyMap
    /\ decode_calls = <<>>
    /\ IdleGen
    /\ acc = IdleAcc
    /\ double_frees = {}
    /\ IdleLocks
    /\ \E ctx \in {NULL, 1, 2}, ub \in {"abort", "read"} :
          lastOp = [op |-> "lookup", ctx |-> ctx, ub |-> ub]

\* The pending lookup runs to its return.  llama_n_ctx of a freed context is
\* a read of freed memory: the process dies (ub = "abort") or the read
\* yields what the memory shows.
CallGetCtxLimits ==
    /\ lastOp.op = "lookup"
    /\ LET ctx == lastOp.ctx
           dangling == ctx # NULL /\ heap[CtxAlloc(ctx)] # "live"
       IN  IF dangling /\ lastOp.ub = "abort"
           THEN lastOp' = [op |-> "get_ctx_limits", ctx |-> ctx, ret |-> "abort",
                           n_ctx |-> 0, n_batch |-> 0]
           ELSE lastOp' = [op |-> "get_ctx_limits", ctx |-> ctx, ret |-> "ok",
                           n_ctx |-> get_ctx_limits(ctx).n_ctx,
                           n_batch |-> get_ctx_limits(ctx).n_batch]
    /\ UNCHANGED <<regVars, llama_ctx, decode_calls, genVars, auxVars>>

NextLimits == CallGetCtxLimits

SpecLimits == InitLimits /\ [][NextLimits]_vars

\* ---------------------------------------------------------------- SpecPrime
\* One completion_init call on a context whose n_ctx is just large enough
\* for n_ctx - n_len - 8 to reach 64, with prompts around that length, each
\* token of a prompt carrying its index so that a trimmed prompt shows which
\* tokens were kept.  n_len is small, or so large that the clamp of
\* max_prompt applies.
PrimeCtxs == {64 + 8 + d : d \in 0..MaxSlack}
PrimeLens == (0..MaxNLen) \cup {64}
LongPrompts == {[i \in 1..n |-> 100 + i] : n \in (64 - 2)..(64 + MaxSlack + 2)}

InitPrime ==
    /\ \E c \in PrimeCtxs :
          /\ llama_ctx = (1 :> c)
          /\ g_ctx_n_ctx = (1 :> c)
          /\ g_ctx_n_batch = (1 :> Min(c, 512))
    /\ \E cap \in {32, CHAT_N_BATCH_DEFAULT} :
          /\ g_batch_n_tokens = (1 :> cap)
          /\ g_batch_n_seq_max = (1 :> 1)
    /\ decode_calls = <<>>
    /\ lastOp = NoOp
    /\ IdleGen
    /\ IdleAux

PrimeInit ==
    \E tokens \in LongPrompts, n_len \in PrimeLens, failAt \in 0..2 :
        /\ lastOp = NoOp
        /\ completion_init(1, 1, 1, tokens, n_len, failAt)

NextPrime == PrimeInit

SpecPrime == InitPrime /\ [][NextPrime]_vars

\* -------------------------------------------------------------- FairThreads
\* Two threads, each running a few operations one after the other on the same
\* context handle and the same batch handle, one statement at a time.  Only
\* the statements that touch a mutex, a registry map or the lifetime of the
\* object are kept, in source order; std::lock_guard is a lock statement at
\* its declaration and an unlock statement at the end of its block.
TheCtx == CHOOSE h \in CtxHandles : TRUE
TheBatch == CHOOSE h \in BatchHandles : TRUE

\* a mutant: decode_tokens_chunked keeps both mutexes until the decode returns
ProgramNested(op) ==
    CASE op = "decode_tokens_chunked" ->
            <<"llama_n_ctx", "lock_ctx", "find_n_batch", "find_n_ctx",
              "lock_batch", "find_n_tokens",
              "llama_decode_call", "llama_decode_return",
              "unlock_batch", "unlock_ctx">>
      [] op = "completion_loop" ->
            <<"llama_n_ctx", "llama_decode_call", "llama_decode_return">>
      [] op = "new_context" ->
            <<"llama_new_context", "lock_ctx", "put_n_ctx", "put_n_batch", "unlock_ctx">>
      [] op = "free_context" ->
            <<"lock_ctx", "erase_n_ctx", "erase_n_batch", "unlock_ctx", "llama_free">>
      [] op = "new_batch" ->
            <<"new", "lock_batch", "put_n_tokens", "put_n_seq_max", "unlock_batch">>
      [] op = "free_batch" ->
            <<"lock_batch", "find_n_tokens", "erase_n_tokens", "erase_n_seq_max",
              "unlock_batch", "delete">>

Program(op) ==
    CASE op = "decode_tokens_chunked" ->
            <<"llama_n_ctx", "lock_ctx", "find_n_batch", "find_n_ctx", "unlock_ctx",
              "lock_batch", "find_n_tokens", "unlock_batch",
              "llama_decode_call", "llama_decode_return">>
      [] op = "completion_loop" ->
            <<"llama_n_ctx", "llama_decode_call", "llama_decode_return">>
      [] op = "new_context" ->
            <<"llama_new_context", "lock_ctx", "put_n_ctx", "put_n_batch", "unlock_ctx">>
      [] op = "free_context" ->
            <<"lock_ctx", "erase_n_ctx", "erase_n_batch", "unlock_ctx", "llama_free">>
      [] op = "new_batch" ->
            <<"new", "lock_batch", "put_n_tokens", "put_n_seq_max", "unlock_batch">>
      [] op = "free_batch" ->
            <<"lock_batch", "find_n_tokens", "erase_n_tokens", "erase_n_seq_max",
              "unlock_batch", "delete">>

ThreadOps == {"decode_tokens_chunked", "completion_loop", "new_context",
              "free_context", "new_batch", "free_batch"}

\* a mutant: the mutex does not exclude
CanAcquireAlways(mu) == TRUE

\* std::mutex::lock returns once no thread holds the mutex
CanAcquire(mu) == mu = 0

Running(op) == \E u \in Threads : th[u].op = op
CtxIsLive == CtxAlloc(TheCtx) \in DOMAIN heap /\ heap[CtxAlloc(TheCtx)] = "live"
BatchIsLive == StructAlloc(TheBatch) \in DOMAIN heap /\ heap[StructAlloc(TheBatch)] = "live"

\* what a caller may begin: an object is made at an address that holds none,
\* freed while it exists and by one thread only, used while it exists
CanStart(op) ==
    CASE op \in {"decode_tokens_chunked", "completion_loop"} -> CtxIsLive /\ BatchIsLive
      [] op = "new_context"  -> ~CtxIsLive /\ ~Running(op)
      [] op = "free_context" -> CtxIsLive /\ ~Running(op)
      [] op = "new_batch"    -> ~BatchIsLive /\ ~Running(op)
      [] op = "free_batch"   -> BatchIsLive /\ ~Running(op)

InitThreads ==
    /\ \E made \in BOOLEAN :
          /\ llama_ctx = IF made THEN (TheCtx :> CHAT_N_CTX_DEFAULT) ELSE EmptyMap
          /\ g_ctx_n_ctx = llama_ctx
          /\ g_ctx_n_batch = IF made THEN (TheCtx :> CHAT_N_BATCH_DEFAULT) ELSE EmptyMap
          /\ \E bmade \in BOOLEAN :
                /\ g_batch_n_tokens = IF bmade THEN (TheBatch :> MaxCap) ELSE EmptyMap
                /\ g_batch_n_seq_max = IF bmade THEN (TheBatch :> 1) ELSE EmptyMap
                /\ heap = [a \in (IF made THEN {CtxAlloc(TheCtx)} ELSE {}) \cup
                                 (IF bmade THEN {StructAlloc(TheBatch)} ELSE {}) |-> "live"]
    /\ decode_calls = <<>>
    /\ lastOp = NoOp
    /\ IdleGen
    /\ acc = IdleAcc
    /\ double_frees = {}
    /\ g_ctx_mu = 0
    /\ g_batch_mu = 0
    /\ th = [t \in Threads |-> [IdleThread EXCEPT !.left = MaxOps]]

\* thread t enters an operation
ThreadStart(t) ==
    /\ th[t].op = "idle"
    /\ th[t].left > 0
    /\ \E op \in ThreadOps :
          /\ CanStart(op)
          /\ th' = [th EXCEPT ![t] = [@ EXCEPT !.op = op, !.pc = 1,
                                               !.seenC = "none", !.seenB = "none"]]
    /\ UNCHANGED <<regVars, llama_ctx, decode_calls, lastOp, genVars, acc, heap,
                   double_frees, g_ctx_mu, g_batch_mu>>

\* thread t executes the statement it stands at
ThreadStep(t) ==
    /\ th[t].op # "idle"
    /\ LET me == th[t]
           stmt == Program(me.op)[me.pc]
           moved == IF me.pc = Len(Program(me.op))
                    THEN [me EXCEPT !.op = "idle", !.pc = 0, !.left = @ - 1]
                    ELSE [me EXCEPT !.pc = @ + 1]
           found(m, h) == IF h \in DOMAIN m THEN "yes" ELSE "no"
       IN  /\ stmt = "lock_ctx" => CanAcquire(g_ctx_mu)
           /\ stmt = "lock_batch" => CanAcquire(g_batch_mu)
           /\ g_ctx_mu' = CASE stmt = "lock_ctx" -> t
                            [] stmt = "unlock_ctx" -> 0
                            [] OTHER -> g_ctx_mu
           /\ g_batch_mu' = CASE stmt = "lock_batch" -> t
                              [] stmt = "unlock_batch" -> 0
                              [] OTHER -> g_batch_mu
           /\ g_ctx_n_ctx' = CASE stmt = "put_n_ctx" ->
                                    MapPut(g_ctx_n_ctx, TheCtx, CHAT_N_CTX_DEFAULT)
                               [] stmt = "erase_n_ctx" -> MapErase(g_ctx_n_ctx, TheCtx)
                               [] OTHER -> g_ctx_n_ctx
           /\ g_ctx_n_batch' = CASE stmt = "put_n_batch" ->
                                      MapPut(g_ctx_n_batch, TheCtx, CHAT_N_BATCH_DEFAULT)
                                 [] stmt = "erase_n_batch" -> MapErase(g_ctx_n_batch, TheCtx)
                                 [] OTHER -> g_ctx_n_batch
           /\ g_batch_n_tokens' = CASE stmt = "put_n_tokens" ->
                                         MapPut(g_batch_n_tokens, TheBatch, MaxCap)
                                    [] stmt = "erase_n_tokens" ->
                                         MapErase(g_batch_n_tokens, TheBatch)
                                    [] OTHER -> g_batch_n_tokens
           /\ g_batch_n_seq_max' = CASE stmt = "put_n_seq_max" ->
                                          MapPut(g_batch_n_seq_max, TheBatch, 1)
                                     [] stmt = "erase_n_seq_max" ->
                                          MapErase(g_batch_n_seq_max, TheBatch)
                                     [] OTHER -> g_batch_n_seq_max
           /\ heap' = CASE stmt = "llama_new_context" ->
                             Remade("ctx", TheCtx, (CtxAlloc(TheCtx) :> "live"))
                        [] stmt = "llama_free" -> Released({CtxAlloc(TheCtx)})
                        [] stmt = "new" ->
                             Remade("batch", TheBatch, (StructAlloc(TheBatch) :> "live"))
                        [] stmt = "delete" -> Released({StructAlloc(TheBatch)})
                        [] OTHER -> heap
           /\ llama_ctx' = CASE stmt = "llama_new_context" ->
                                  MapPut(llama_ctx, TheCtx, CHAT_N_CTX_DEFAULT)
                             [] stmt = "llama_free" -> MapErase(llama_ctx, TheCtx)
                             [] OTHER -> llama_ctx
           /\ th' = [th EXCEPT ![t] =
                        CASE stmt = "find_n_batch" ->
                               [moved EXCEPT !.seenB = found(g_ctx_n_batch, TheCtx)]
                          [] stmt = "find_n_ctx" ->
                               [moved EXCEPT !.seenC = found(g_ctx_n_ctx, TheCtx)]
                          [] OTHER -> moved]
    /\ UNCHANGED <<decode_calls, lastOp, genVars, acc, double_frees>>

NextThreads == \E t \in Threads : ThreadStart(t) \/ ThreadStep(t)

\* a thread inside an operation is not suspended for ever by the scheduler
FairThreads ==
    InitThreads /\ [][NextThreads]_vars /\ \A t \in Threads : WF_vars(ThreadStep(t))

\* ------------------------------------------------ claims on SpecChunk
ChunkDone == lastOp.op = "decode_tokens_chunked"
ChunkLive == lastOp.ctx # NULL /\ lastOp.batch # NULL
CeilDiv(n, d) == (n + d - 1) \div d
\* the chunk size as the specification words it
SpecChunkSize ==
    LET maxBatchTokens == get_ctx_limits(lastOp.ctx).n_batch
        batchCapacity == get_batch_capacity(lastOp.batch)
    IN  Max(1, Min(maxBatchTokens,
                   IF batchCapacity > 0 THEN batchCapacity ELSE maxBatchTokens))
\* the records of all the calls, in call order
Submitted == Flatten(decode_calls)
Flagged == {i \in 1..Len(Submitted) : Submitted[i].logits}

\* C1: a decode_tokens_chunked call over n tokens whose decodes all succeed
\* issues exactly ceil(n / chunkSize) llama_decode calls, each of 1..chunkSize
\* records; over no tokens it succeeds with no call.
C1_ChunkCount ==
    /\ (ChunkDone /\ lastOp.ok) =>
          /\ Len(decode_calls) = CeilDiv(Len(lastOp.tokens), SpecChunkSize)
          /\ \A k \in 1..Len(decode_calls) :
                Len(decode_calls[k]) >= 1 /\ Len(decode_calls[k]) <= SpecChunkSize
    /\ (ChunkDone /\ ChunkLive /\ lastOp.tokens = <<>>) =>
          lastOp.ok /\ decode_calls = <<>>

\* a successful call that needed several chunks, the last one short
C1_Witness ==
    /\ ChunkDone /\ lastOp.ok
    /\ Len(decode_calls) >= 2
    /\ Len(decode_calls[Len(decode_calls)]) < SpecChunkSize

\* C2: the records of a successful call, concatenated in call order, are
\* (tokens[i], pos0 + i, {0}) for i = 0..n-1: contiguous positions, tokens in
\* their original order.
C2_Positions ==
    (ChunkDone /\ lastOp.ok) =>
        /\ Len(Submitted) = Len(lastOp.tokens)
        /\ \A i \in 1..Len(Submitted) :
              /\ Submitted[i].token = lastOp.tokens[i]
              /\ Submitted[i].pos = lastOp.pos0 + (i - 1)
              /\ Submitted[i].seq_id = {0}

\* a successful call of several chunks from a non-zero start position
C2_Witness ==
    /\ ChunkDone /\ lastOp.ok
    /\ Len(decode_calls) >= 2
    /\ lastOp.pos0 > 0
    /\ \E i, j \in 1..Len(lastOp.tokens) : lastOp.tokens[i] # lastOp.tokens[j]

\* C3 as stated: over a non-empty token sequence, with the logits request
\* exactly one record of the call is flagged and it is the last record of the
\* last chunk; without the request none is.
C3_LogitsAsStated ==
    (ChunkDone /\ ChunkLive /\ lastOp.tokens # <<>>) =>
        IF lastOp.want
        THEN /\ Cardinality(Flagged) = 1
             /\ Flagged = {Len(Submitted)}
        ELSE Flagged = {}

\* C3 as amended: the only record ever flagged is the one of the last token
\* of the sequence; it is flagged exactly when logits are requested and the
\* last chunk is submitted (so always when the call succeeds), and an
\* earlier chunk whose decode fails leaves the call with no flagged record.
C3_Logits ==
    (ChunkDone /\ ChunkLive /\ lastOp.tokens # <<>>) =>
        /\ Flagged \subseteq {Len(lastOp.tokens)}
        /\ (lastOp.want /\ Len(Submitted) = Len(lastOp.tokens)) =>
              Flagged = {Len(Submitted)}
        /\ lastOp.ok => Len(Submitted) = Len(lastOp.tokens)
        /\ ~lastOp.want => Flagged = {}

\* a successful call of several chunks with the logits request
C3_Witness ==
    /\ ChunkDone /\ lastOp.ok /\ lastOp.want
    /\ Len(decode_calls) >= 2
    /\ Flagged = {Len(lastOp.tokens)}

\* -------------------------------------------------- claims on SpecOps
ExposedOps == {"completion_init", "completion_loop", "embedding_for_text",
               "bench_model"}
\* the calls of the last operation all fit the context's n_batch and the
\* batch's allocated n_tokens
CallsFit ==
    \A k \in 1..Len(decode_calls) :
        /\ Len(decode_calls[k]) <= g_ctx_n_batch[lastOp.ctx]
        /\ Len(decode_calls[k]) <= g_batch_n_tokens[lastOp.batch]

\* C4: no exposed operation (completion_init, completion_loop,
\* embedding_for_text, bench_model) issues a llama_decode call carrying more
\* records than the context's n_batch or than the batch's allocated capacity.
C4_NoOversizedCall ==
    (lastOp.op \in ExposedOps /\ decode_calls # <<>>) => CallsFit

\* the same bound for the three operations that go through
\* decode_tokens_chunked or decode a single record
C4_ChunkedOpsFit ==
    (lastOp.op \in ExposedOps \ {"bench_model"} /\ decode_calls # <<>>) => CallsFit

\* -------------------------------------------------- claims on SpecGen
\* C5: from the cursor completion_init returned, repeated completion_loop
\* calls with the same n_len return at most n_len - primed fragments (none
\* when that is negative) before the first stop.
C5_FragmentBound ==
    \A s \in Sessions :
        sess[s].started => sess[s].count <= Max(0, sess[s].n_len - sess[s].primed)

\* C7: what completion_loop returns when its llama_decode fails differs from
\* what it returns on an end-of-generation stop.
C7_FailureDistinct ==
    step_returns["decode_failed"] \cap step_returns["stop"] = {}

\* C8: in interleaved sessions on distinct context/batch pairs every text
\* fragment a session gets is the fragment it gets for the same sampled
\* tokens when it runs alone (with the pending-text buffer to itself).
C8_NoInterference ==
    \A s \in Sessions : sess[s].out = sess[s].solo_out

\* -------------------------------------------------- claims on FairGen
\* C6: repeated completion_loop calls from any cursor reach a stop after
\* finitely many calls, whatever the sampler draws and whatever llama_decode
\* returns.
C6_ReachesStop == <>(sess[1].stopped)

\* the stop came from the cursor leaving [0, n_ctx) after at least two
\* fragments: no end-of-generation token, no failed decode, no length stop
C6_Witness ==
    /\ sess[1].stopped
    /\ lastOp.op = "completion_loop" /\ lastOp.cause = "range"
    /\ sess[1].count >= 2

\* -------------------------------------------------- claims on SpecAcc
AccFed == acc.text # <<>> /\ acc.fed = Len(acc.text)
HasNul(text) == \E i \in 1..Len(text) : text[i] = 0

C10_SecondFreeHarmless ==
    (lastOp.op \in {"free_batch", "free_context"} /\ lastOp.second) =>
        (~lastOp.reg_changed /\ lastOp.rereleased = {})

\* C11: when a malloc of new_batch fails, every allocation made for that
\* batch before it (the struct and the buffers) has been released when the
\* call returns, and the batch's address has no registry entry.
C11_FailureReleasesAll ==
    (lastOp.op = "new_batch" /\ lastOp.ret = "oom") =>
        /\ \A a \in OfHandle("batch", lastOp.at) : heap[a] = "freed"
        /\ lastOp.at \notin DOMAIN g_batch_n_tokens
        /\ lastOp.at \notin DOMAIN g_batch_n_seq_max

\* C12: get_ctx_limits on a handle with no registry entry returns without
\* failing and yields exactly (CHAT_N_CTX_DEFAULT, CHAT_N_BATCH_DEFAULT),
\* whatever llama_n_ctx reports for the handle.
C12_UnregisteredDefaults ==
    (/\ lastOp.op = "get_ctx_limits"
     /\ lastOp.ctx \notin DOMAIN g_ctx_n_ctx
     /\ lastOp.ctx \notin DOMAIN g_ctx_n_batch) =>
        /\ lastOp.ret = "ok"
        /\ lastOp.n_ctx = CHAT_N_CTX_DEFAULT
        /\ lastOp.n_batch = CHAT_N_BATCH_DEFAULT

\* ------------------------------------------------- claims on SpecPrime
\* the tokens of the records submitted, in call order
SubmittedTokens == [i \in 1..Len(Flatten(decode_calls)) |-> Flatten(decode_calls)[i].token]

IsPrefix(p, q) == Len(p) <= Len(q) /\ \A i \in 1..Len(p) : p[i] = q[i]

\* the prompt completion_init is to prime when n_ctx - n_len - 8 >= 64
ExpectedPrompt(tokens, n_ctx, n_len) ==
    LET room == n_ctx - n_len - 8
        n == Len(tokens)
    IN  IF n <= room THEN tokens ELSE [i \in 1..room |-> tokens[n - room + i]]

\* C13: when n_ctx - n_len - 8 >= 64, completion_init primes a prompt of n
\* tokens unchanged if n <= n_ctx - n_len - 8 and otherwise exactly its
\* trailing n_ctx - n_len - 8 tokens, in order: these are the tokens it hands
\* to the scheduler, the records it submits carry them in order, and when no
\* decode fails they carry all of them and their number is returned.
C13_PromptTrim ==
    (/\ lastOp.op = "completion_init" /\ ~lastOp.threw
     /\ llama_n_ctx(lastOp.ctx) - lastOp.n_len - 8 >= 64) =>
        LET expect == ExpectedPrompt(lastOp.tokens, llama_n_ctx(lastOp.ctx), lastOp.n_len)
        IN  /\ lastOp.kept = expect
            /\ IsPrefix(SubmittedTokens, expect)
            /\ lastOp.ok => (SubmittedTokens = expect /\ lastOp.ret = Len(expect))

\* a prompt longer than the room was trimmed and primed in several chunks
C13_Witness ==
    /\ lastOp.op = "completion_init" /\ lastOp.ok
    /\ llama_n_ctx(lastOp.ctx) - lastOp.n_len - 8 >= 64
    /\ Len(lastOp.tokens) > llama_n_ctx(lastOp.ctx) - lastOp.n_len - 8
    /\ Len(decode_calls) >= 2

\* C14: the number of prompt tokens completion_init primes plus n_len does
\* not exceed n_ctx.
C14_PromptFits ==
    (lastOp.op = "completion_init" /\ ~lastOp.threw) =>
        Len(lastOp.kept) + lastOp.n_len <= llama_n_ctx(lastOp.ctx)

\* --------------------------------------------- further claims on SpecOps
\* the records of a text's leading tokens up to n_ctx, at positions from 0,
\* logits asked on the last one
ExpectedEmbedRecords(tokens, n_ctx) ==
    LET m == IF Len(tokens) <= n_ctx THEN Len(tokens) ELSE n_ctx
    IN  [i \in 1..m |-> [token |-> tokens[i], pos |-> i - 1, seq_id |-> {0},
                         logits |-> (i = m)]]

\* C15: embedding_for_text decodes a text of n tokens unchanged when
\* n <= n_ctx and otherwise exactly its leading n_ctx tokens, at positions
\* from 0 with logits asked on the last token: the records it submits are
\* these in order, and all of them when no decode fails.
C15_EmbedTrim ==
    (/\ lastOp.op = "embedding_for_text"
     /\ lastOp.ctx # NULL /\ lastOp.batch # NULL) =>
        LET expect == ExpectedEmbedRecords(lastOp.tokens, llama_n_ctx(lastOp.ctx))
        IN  /\ IsPrefix(Flatten(decode_calls), expect)
            /\ lastOp.ok => Flatten(decode_calls) = expect

\* a text longer than n_ctx was cut and decoded in several chunks
C15_Witness ==
    /\ lastOp.op = "embedding_for_text" /\ lastOp.ok
    /\ Len(lastOp.tokens) > llama_n_ctx(lastOp.ctx)
    /\ Len(decode_calls) >= 2

\* --------------------------------------------- further claims on SpecGen
\* C16: a successful completion_init returns the number r of records it
\* submitted, which sit at positions 0..r-1; the completion_loop calls that
\* follow with the cursor started at r submit at r, r+1, ..., so that the
\* positions decoded since the reset are 0, 1, 2, ... with no gap and no
\* repeat.
C16_ContiguousPositions ==
    /\ (lastOp.op = "completion_init" /\ lastOp.ok) =>
           /\ lastOp.ret = Len(Flatten(decode_calls))
           /\ \A i \in 1..lastOp.ret : Flatten(decode_calls)[i].pos = i - 1
    /\ \A s \in Sessions :
           (sess[s].started /\ sess[s].primed_ok) =>
               /\ sess[s].contig
               /\ sess[s].hi = sess[s].primed + sess[s].count

\* a session primed a prompt and made two successful steps after it
C16_Witness ==
    \E s \in Sessions :
        /\ sess[s].primed_ok /\ sess[s].primed = MaxPrompt
        /\ sess[s].count = 2 /\ sess[s].hi = MaxPrompt + 2

\* -------------------------------------------- further claims on SpecLife
\* the handles of the objects that exist now
LiveCtxs == {h \in CtxHandles : CtxAlloc(h) \in DOMAIN heap /\ heap[CtxAlloc(h)] = "live"}
LiveBatches ==
    {h \in BatchHandles : StructAlloc(h) \in DOMAIN heap /\ heap[StructAlloc(h)] = "live"}

\* C17: after any sequence of creations (failed ones included) and frees,
\* the handles with an entry in a registry are exactly the handles of the
\* contexts, respectively batches, that are live.
C17_RegistryMatchesLive ==
    /\ DOMAIN g_ctx_n_ctx = LiveCtxs
    /\ DOMAIN g_ctx_n_batch = LiveCtxs
    /\ DOMAIN g_batch_n_tokens = LiveBatches
    /\ DOMAIN g_batch_n_seq_max = LiveBatches

\* a batch was just freed while a context is live, after a creation failed
C17_Witness ==
    /\ lastOp.op = "free_batch" /\ lastOp.reg_changed
    /\ LiveCtxs # {}
    /\ \E a \in DOMAIN heap : heap[a] = "leaked"

\* ------------------------------------- claims on the steps of SpecOps
\* the call just made was rejected for an invalid argument
Rejected(op) ==
    \/ op.op = "new_batch" /\ op.ret = "throw"
    \/ /\ op.op \in {"completion_init", "completion_loop", "embedding_for_text"}
       /\ (op.ctx = NULL \/ op.batch = NULL)

\* C18: a call with an invalid argument (new_batch with a non-positive size,
\* completion_init, completion_loop or embedding_for_text with a null
\* context or batch) leaves the registries, the pending-text buffer, the
\* cursor and the engine as they were and issues no decode call.
C18_RejectedNoEffect ==
    [][Rejected(lastOp') =>
          /\ UNCHANGED <<regVars, llama_ctx, cached_token_chars, n_cur>>
          /\ decode_calls' = <<>>]_vars

\* C19: when completion_loop reports the failure of its llama_decode call,
\* the cursor and the pending-text buffer hold the values they had when the
\* call began.
C19_FailedStepNoEffect ==
    [][(lastOp'.op = "completion_loop" /\ lastOp'.cause = "decode_failed") =>
          UNCHANGED <<n_cur, cached_token_chars>>]_vars

\* C20: a completion_loop call that does not stop before decoding submits
\* one engine call of exactly one record (the sampled token, the cursor value
\* read at the start of the call, sequence ids {0}, logits asked) and leaves
\* the cursor one above the value read.
C20_OneRecordPerStep ==
    (lastOp.op = "completion_loop" /\ lastOp.cause \in {"ok", "decode_failed"}) =>
        /\ decode_calls = << << [token |-> lastOp.tok, pos |-> lastOp.cur,
                                 seq_id |-> {0}, logits |-> TRUE] >> >>
        /\ n_cur[lastOp.s] = lastOp.cur + 1

\* a step decoded a text token at a cursor inside the context
C20_Witness ==
    /\ lastOp.op = "completion_loop" /\ lastOp.cause = "ok"
    /\ lastOp.cur >= 1 /\ lastOp.tok \in TextTokens
    /\ Len(decode_calls) = 1

\* the call's cursor was out of range, or its sampled token or the length
\* test asked for a stop
StopCase(op) ==
    /\ op.op = "completion_loop" /\ op.cause # "null"
    /\ \/ op.cur < 0
       \/ op.cur >= llama_n_ctx(op.ctx)
       \/ llama_token_is_eog(op.tok)
       \/ op.tok = llama_token_eot
       \/ op.cur = op.n_len

\* C21: when completion_loop stops because the cursor is outside [0, n_ctx),
\* the sampled token is an end-of-generation or end-of-turn token, or the
\* cursor equals n_len, it returns null, issues no llama_decode call and
\* leaves the cursor, the batch registry and the pending-text buffer as they
\* were.
C21_StopNoEffect ==
    [][StopCase(lastOp') =>
          /\ lastOp'.ret = NullRet
          /\ decode_calls' = <<>>
          /\ UNCHANGED <<n_cur, g_batch_n_tokens, g_batch_n_seq_max,
                         cached_token_chars>>]_vars

\* a call stopped on its token or on the length while bytes were pending
C21_Witness ==
    /\ lastOp.op = "completion_loop" /\ lastOp.cause = "token"
    /\ lastOp.cur >= 1
    /\ cached_token_chars = <<195>>

\* C22: every record position that completion_init, completion_loop or
\* embedding_for_text submits lies in [0, n_ctx), and after every
\* completion_loop call that decoded the cursor is in [0, n_ctx).
C22_PositionsInRange ==
    (/\ lastOp.op \in {"completion_init", "completion_loop", "embedding_for_text"}
     /\ lastOp.ctx # NULL /\ lastOp.batch # NULL) =>
        /\ \A i \in 1..Len(Flatten(decode_calls)) :
               /\ Flatten(decode_calls)[i].pos >= 0
               /\ Flatten(decode_calls)[i].pos < llama_n_ctx(lastOp.ctx)
        /\ (lastOp.op = "completion_loop" /\ lastOp.cause \in {"ok", "decode_failed"}) =>
               (n_cur[lastOp.s] >= 0 /\ n_cur[lastOp.s] < llama_n_ctx(lastOp.ctx))

\* C23: when the llama_decode call of chunk k fails inside
\* decode_tokens_chunked, exactly k calls were issued and they carry the
\* tokens of the first k chunks only; completion_init then returns 0 and
\* embedding_for_text throws and returns an empty array.
C23_AbortOnFailedChunk ==
    (/\ lastOp.op \in {"completion_init", "embedding_for_text"}
     /\ lastOp.ctx # NULL /\ lastOp.batch # NULL
     /\ ~lastOp.ok) =>
        LET k == lastOp.failAt
            size == ChunkCap(get_ctx_limits(lastOp.ctx).n_batch,
                             get_batch_capacity(lastOp.batch))
            handed == IF lastOp.op = "completion_init" THEN lastOp.kept
                      ELSE KeepLeading(lastOp.tokens, llama_n_ctx(lastOp.ctx))
        IN  /\ k >= 1
            /\ Len(decode_calls) = k
            /\ SubmittedTokens = SubSeq(handed, 1, Min(k * size, Len(handed)))
            /\ lastOp.op = "completion_init" => lastOp.ret = 0
            /\ lastOp.op = "embedding_for_text" =>
                   (lastOp.threw /\ lastOp.ret = "empty")

\* the second chunk of a prompt failed and a third one was never submitted
C23_Witness ==
    /\ lastOp.op = "completion_init" /\ ~lastOp.ok
    /\ lastOp.failAt = 2
    /\ Len(Flatten(decode_calls)) < Len(lastOp.kept)

\* the n_tokens a live batch was made with: new_batch allocates one
\* seq_id[i] array per token slot
CreatedCapacity(h) ==
    Cardinality({a \in OfHandle("batch", h) : a[3] = "seq_id_i"})

\* C24: get_batch_capacity returns the n_tokens given to new_batch for a
\* batch that is live, and 0 for the null handle, for a handle never made
\* and for a handle that was freed; with a capacity of 0 the chunk size of
\* decode_tokens_chunked is the context's n_batch.
C24_CapacityLookup ==
    /\ \A h \in {NULL, 3} \cup BatchHandles :
           get_batch_capacity(h) = IF h \in LiveBatches THEN CreatedCapacity(h) ELSE 0
    /\ \A c \in LiveCtxs :
           ChunkCap(get_ctx_limits(c).n_batch, 0) = get_ctx_limits(c).n_batch

\* a batch was just freed while another one of capacity 2 or more and a
\* context are live
C24_Witness ==
    /\ lastOp.op = "free_batch" /\ lastOp.reg_changed
    /\ \E h \in LiveBatches : h # lastOp.h /\ get_batch_capacity(h) >= 2
    /\ LiveCtxs # {}

\* ------------------------------------------------- claims on FairThreads
StmtOf(t) == IF th[t].op = "idle" THEN "none" ELSE Program(th[t].op)[th[t].pc]
HoldsLock(t) == g_ctx_mu = t \/ g_batch_mu = t
\* the thread has called llama_decode and the call has not returned
Decoding(t) == StmtOf(t) = "llama_decode_return"
\* the thread has started a critical section of a registry and is not out of it
InCtxRegistry(t) ==
    StmtOf(t) \in {"lock_ctx", "find_n_batch", "find_n_ctx", "put_n_ctx", "put_n_batch",
                   "erase_n_ctx", "erase_n_batch", "unlock_ctx"}
InBatchRegistry(t) ==
    StmtOf(t) \in {"lock_batch", "find_n_tokens", "put_n_tokens", "put_n_seq_max",
                   "erase_n_tokens", "erase_n_seq_max", "unlock_batch"}
NeverBothLocks == \A t \in Threads : ~(g_ctx_mu = t /\ g_batch_mu = t)
RegistryOpsComplete ==
    \A t \in Threads :
        /\ InCtxRegistry(t) ~> ~InCtxRegistry(t)
        /\ InBatchRegistry(t) ~> ~InBatchRegistry(t)

\* C25 as stated: while an engine decode call of any thread is in progress no
\* thread holds a registry mutex; no thread holds both mutexes at once; every
\* registry critical section that a thread has started is left again.
C25_NoLockDuringAnyDecode ==
    /\ [](\A t, u \in Threads : Decoding(t) => ~HoldsLock(u))
    /\ []NeverBothLocks
    /\ RegistryOpsComplete

\* C25 as amended: the thread that makes an engine decode call holds no
\* registry mutex while the call is in progress (another thread may hold one
\* for its own lookup, insert or erase in the meantime); no thread holds both
\* mutexes at once; every registry critical section that a thread has started
\* is left again.
C25_NoLockAcrossDecode ==
    /\ [](\A t \in Threads : Decoding(t) => ~HoldsLock(t))
    /\ []NeverBothLocks
    /\ RegistryOpsComplete

\* one thread is inside the llama_decode of decode_tokens_chunked, its lookups
\* done, while the other thread waits at a mutex that a registry operation
\* may take
C25_Witness ==
    \E t, u \in Threads :
        /\ th[t].op = "decode_tokens_chunked" /\ Decoding(t)
        /\ th[t].seenC = "yes" /\ th[t].seenB = "yes"
        /\ th[u].op = "free_context" /\ StmtOf(u) = "lock_ctx"
        /\ g_ctx_mu = 0

\* C26: a lookup of a context that runs while the same context is being
\* registered or unregistered finds both of its registered values or neither,
\* and whenever the mutex of a registry is free the two maps of that registry
\* have the same keys.
C26_PairsAtomic ==
    /\ \A t \in Threads :
          (th[t].seenC # "none" /\ th[t].seenB # "none") => th[t].seenC = th[t].seenB
    /\ g_ctx_mu = 0 => DOMAIN g_ctx_n_ctx = DOMAIN g_ctx_n_batch
    /\ g_batch_mu = 0 => DOMAIN g_batch_n_tokens = DOMAIN g_batch_n_seq_max

\* a lookup has made both of its finds and still holds the mutex, while the
\* other thread, unregistering the same context, waits for that mutex
C26_Witness ==
    \E t, u \in Threads :
        /\ th[t].op = "decode_tokens_chunked" /\ StmtOf(t) = "unlock_ctx"
        /\ th[t].seenC = "yes" /\ th[t].seenB = "yes"
        /\ g_ctx_mu = t
        /\ th[u].op = "free_context" /\ StmtOf(u) = "lock_ctx"

====
